---- MODULE Spec2Model ----
(***************************************************************************)
(* The route-analytics pipeline of scripts/ (load_and_clean, enrich_routes, *)
(* financial_metrics, growth_metrics, export_master) as a state machine.   *)
(* A table is a sequence of rows, a row a record whose DOMAIN is the set   *)
(* of columns.  Numeric cells are float64 values: a finite number is kept  *)
(* as an exact fraction, and NaN and the two infinities are values of      *)
(* their own, with the arithmetic numpy gives them.                        *)
(***************************************************************************)
EXTENDS Integers, Sequences, FiniteSets, TLC

VARIABLES pc, raw, heap, df, route_summary, nb_summary, fleet_summary, exc

vars == <<pc, raw, heap, df, route_summary, nb_summary, fleet_summary, exc>>

(***************************************************************************)
(* Bounds of the model.                                                    *)
(***************************************************************************)
MaxRows == 3

(***************************************************************************)
(* float64 cells.                                                          *)
(***************************************************************************)
Abs(x) == IF x < 0 THEN -x ELSE x

Sign(x) == IF x < 0 THEN -1 ELSE IF x = 0 THEN 0 ELSE 1

RECURSIVE GCD(_, _)
GCD(a, b) == IF b = 0 THEN a ELSE GCD(b, a % b)

NaN == [k |-> "nan", n |-> 0, d |-> 1]

Inf(s) == [k |-> "inf", n |-> s, d |-> 1]

Frac(n, d) ==
    LET g == GCD(Abs(n), Abs(d))
    IN  [k |-> "num", n |-> Sign(d) * (n \div g), d |-> Abs(d) \div g]

Int2F(i) == [k |-> "num", n |-> i, d |-> 1]

IsNaN(x) == x.k = "nan"

IsInf(x) == x.k = "inf"

IsFinite(x) == x.k = "num"

FNeg(x) == IF IsNaN(x) THEN NaN ELSE [x EXCEPT !.n = -x.n]

FAdd(a, b) ==
    IF IsNaN(a) \/ IsNaN(b) THEN NaN
    ELSE IF IsInf(a) /\ IsInf(b) THEN (IF a.n = b.n THEN a ELSE NaN)
    ELSE IF IsInf(a) THEN a
    ELSE IF IsInf(b) THEN b
    ELSE LET g == GCD(a.d, b.d)
         IN  Frac(a.n * (b.d \div g) + b.n * (a.d \div g), a.d * (b.d \div g))

FSub(a, b) == FAdd(a, FNeg(b))

FMul(a, b) ==
    IF IsNaN(a) \/ IsNaN(b) THEN NaN
    ELSE IF IsInf(a) \/ IsInf(b)
         THEN (IF Sign(a.n) * Sign(b.n) = 0 THEN NaN ELSE Inf(Sign(a.n) * Sign(b.n)))
    ELSE LET g1 == GCD(Abs(a.n), b.d)
             g2 == GCD(Abs(b.n), a.d)
         IN  Frac((a.n \div g1) * (b.n \div g2), (a.d \div g2) * (b.d \div g1))

\* numpy true division: x/0 is +-inf for x # 0 and NaN for 0/0; nothing raises.
FDiv(a, b) ==
    IF IsNaN(a) \/ IsNaN(b) THEN NaN
    ELSE IF IsInf(b) THEN (IF IsInf(a) THEN NaN ELSE Int2F(0))
    ELSE IF b.n = 0 THEN (IF a.n = 0 THEN NaN ELSE Inf(Sign(a.n)))
    ELSE IF IsInf(a) THEN Inf(Sign(a.n) * Sign(b.n))
    ELSE LET g1 == GCD(Abs(a.n), Abs(b.n))
             g2 == GCD(a.d, b.d)
         IN  Frac((a.n \div g1) * (b.d \div g2), (a.d \div g2) * (b.n \div g1))

(***************************************************************************)
(* Tables.                                                                 *)
(***************************************************************************)
SetCol(r, c, v) == [x \in (DOMAIN r) \cup {c} |-> IF x = c THEN v ELSE r[x]]

Columns(t) == IF Len(t) = 0 THEN {} ELSE DOMAIN t[1]

Rows(t) == 1..Len(t)

\* The order of two sort keys, tuples of ranks of the same length.
LexLess(a, b) ==
    \E i \in 1..Len(a) : a[i] < b[i] /\ \A j \in 1..(i - 1) : a[j] = b[j]

\* A stable sort of t by keys, keys[i] being the sort key of row i: a row goes
\* after every row with a smaller key and after the rows with an equal key
\* that come before it.
StableSort(t, keys) ==
    LET n == Len(t)
        pos(i) == 1 + Cardinality({j \in 1..n :
                        \/ LexLess(keys[j], keys[i])
                        \/ (keys[j] = keys[i] /\ j < i)})
    IN  [p \in 1..n |-> t[CHOOSE i \in 1..n : pos(i) = p]]

\* The rows of t that satisfy P, in t's order.
RECURSIVE SelectRows(_, _)
SelectRows(t, keep) ==
    IF Len(t) = 0 THEN <<>>
    ELSE (IF 1 \in keep THEN <<t[1]>> ELSE <<>>)
         \o SelectRows(Tail(t), {i - 1 : i \in keep \ {1}})

RECURSIVE Flatten(_)
Flatten(ss) == IF Len(ss) = 0 THEN <<>> ELSE ss[1] \o Flatten(Tail(ss))

(***************************************************************************)
(* The input: airport codes, month strings, passenger counts and fares.    *)
(***************************************************************************)
Origins == <<"BOS", "FLL", "JFK">>

Destinations == <<"AUS", "CHS", "DEN", "EWR", "LAX", "MCO", "SAN", "SEA", "SFO">>

\* Alphabetical rank of a code, the order sort_values gives strings.
Airports == <<"AUS", "BOS", "CHS", "DEN", "EWR", "FLL", "JFK", "LAX", "MCO",
              "SAN", "SEA", "SFO">>

AirportOrd(a) == CHOOSE i \in 1..Len(Airports) : Airports[i] = a

MonthStrings == <<"2024-01", "2024-02", "2024-03">>

Timestamps == <<"2024-01-01 00:00:00", "2024-02-01 00:00:00", "2024-03-01 00:00:00">>

Range(s) == {s[i] : i \in 1..Len(s)}

\* pd.to_datetime on one cell: a month string parses to the first instant of
\* that month, a Timestamp stays what it is.
ToDatetime(m) ==
    IF \E i \in 1..Len(MonthStrings) : MonthStrings[i] = m
    THEN Timestamps[CHOOSE i \in 1..Len(MonthStrings) : MonthStrings[i] = m]
    ELSE m

\* Chronological rank of a month cell (string order for unparsed months, which
\* is the same order for the ISO strings above).
MonthOrd(m) ==
    IF \E i \in 1..Len(MonthStrings) : MonthStrings[i] = m
    THEN CHOOSE i \in 1..Len(MonthStrings) : MonthStrings[i] = m
    ELSE CHOOSE i \in 1..Len(Timestamps) : Timestamps[i] = m

MainPairs == {<<"JFK", "LAX">>, <<"BOS", "LAX">>}

\* <<passengers, avg_fare>> of a row: no passengers (revenue 0), break-even
\* (profit 0), and a profitable month.
Profiles == {<<0, 165>>, <<5400, 165>>, <<5400, 265>>}

RawRow(o, d, m, p, f) ==
    [origin |-> o, destination |-> d, month |-> m,
     passengers |-> Int2F(p), avg_fare |-> Int2F(f)]

\* The months of the tables of up to MaxRows rows: February is missing, so a
\* route's two records are never a calendar month apart.
MainMonths == {MonthStrings[1], MonthStrings[3]}

MainRows ==
    {RawRow(od[1], od[2], m, pf[1], pf[2]) :
        od \in MainPairs, m \in MainMonths, pf \in Profiles}

\* Rows for a full quarter of one route.
QuarterRows ==
    {RawRow(od[1], od[2], m, pf[1], pf[2]) :
        od \in MainPairs, m \in Range(MonthStrings), pf \in Profiles}

\* Rows over every origin and destination, for the lookup tables; a fare of 0
\* is the other way to a revenue of 0.
WideProfiles == {<<5400, 0>>, <<5400, 265>>}

WideRows ==
    {RawRow(o, d, m, pf[1], pf[2]) :
        o \in Range(Origins), d \in Range(Destinations), m \in Range(MonthStrings),
        pf \in WideProfiles}

\* The two routes of the end-to-end scenario: three months of JFK-LAX with
\* passengers 100, 150, 120 and two months of BOS-SEA with 80, 88.
ScenarioRows ==
    <<RawRow("JFK", "LAX", MonthStrings[1], 100, 200),
      RawRow("JFK", "LAX", MonthStrings[2], 150, 200),
      RawRow("JFK", "LAX", MonthStrings[3], 120, 200),
      RawRow("BOS", "SEA", MonthStrings[1], 80, 200),
      RawRow("BOS", "SEA", MonthStrings[2], 88, 200)>>

\* Three routes with one record each, for a summary of three rows.
ThreeRouteTables ==
    {<<a, b, ScenarioRows[4]>> : a \in {r \in MainRows : r.origin = "JFK"},
                                 b \in {r \in MainRows : r.origin = "BOS"}}

\* The scenario's rows in every order a file can have them.
ScenarioTables ==
    {t \in [1..Len(ScenarioRows) -> Range(ScenarioRows)] :
        \A i, j \in 1..Len(ScenarioRows) : i # j => t[i] # t[j]}

\* A file without one of its columns: the rows of t without column c.
DropColumn(t, c) == [i \in Rows(t) |-> [x \in (DOMAIN t[i]) \ {c} |-> t[i][x]]]

\* Columns a file can lack: one that only clean_data and enrich_routes read,
\* one that enrich_routes reads first, one that calculate_revenue reads first.
DroppedColumns == {"month", "origin", "passengers"}

\* A month cell that is no date.
BadMonth == "unknown"

BadMonthRows ==
    {RawRow(od[1], od[2], BadMonth, pf[1], pf[2]) : od \in MainPairs, pf \in Profiles}

SameRoute(a, b) == a.origin = b.origin /\ a.destination = b.destination

\* One row per (origin, destination, month), as the data model has it.
UniqueKeys(t) ==
    \A i, j \in 1..Len(t) :
        i # j => ~(SameRoute(t[i], t[j]) /\ MonthOrd(t[i].month) = MonthOrd(t[j].month))

SeqsUpTo(S, n) == UNION {[1..k -> S] : k \in 1..n}

\* Files with a structural fault: a column missing from a table of one or two
\* rows, or a month that is no date among the rows.
FaultyTables ==
    {DropColumn(t, c) : t \in {u \in SeqsUpTo(MainRows, 2) : UniqueKeys(u)},
                        c \in DroppedColumns}
        \cup {<<a>> : a \in BadMonthRows}
        \cup (BadMonthRows \X MainRows)
        \cup (MainRows \X BadMonthRows)

(***************************************************************************)
(* load_and_clean.py                                                       *)
(***************************************************************************)
\* pd.to_datetime raises on a string that is no date.
Unparsable(m) == m = BadMonth

\* clean_data raises when to_datetime does; a missing column raises nothing:
\* month is parsed "if present" and no other column is asked for by name.
clean_data_raises(t) ==
    "month" \in Columns(t) /\ \E i \in Rows(t) : Unparsable(t[i].month)

\* clean_data: the month column is parsed; origin and destination are the
\* object columns to_numeric cannot convert, and they stay as they are.
clean_data(t) ==
    IF "month" \in Columns(t)
    THEN [i \in Rows(t) |-> [t[i] EXCEPT !.month = ToDatetime(t[i].month)]]
    ELSE t

(***************************************************************************)
(* enrich_routes.py                                                        *)
(***************************************************************************)
\* The missing value of an object column (aircraft_type of an unmapped route).
NA == "<NA>"

\* The identifier with the two codes swapped.
RouteOfReversed(o, d) == d \o "-" \o o

RouteOf(o, d) == o \o "-" \o d

prepare_route_identifier(t) ==
    [i \in Rows(t) |-> SetCol(t[i], "route", RouteOf(t[i].origin, t[i].destination))]

\* A lookup that falls back to a default type.
aircraft_map_default(route) ==
    CASE route = "JFK-LAX" -> "A321 Mint"
      [] route = "JFK-SFO" -> "A321 Mint"
      [] route = "JFK-SAN" -> "A321 Mint"
      [] route = "BOS-SEA" -> "A321"
      [] route = "BOS-DEN" -> "A320"
      [] route = "BOS-MCO" -> "A320"
      [] route = "BOS-CHS" -> "A220"
      [] route = "FLL-AUS" -> "A220"
      [] route = "FLL-EWR" -> "A220"
      [] route = "JFK-AUS" -> "A320"
      [] OTHER -> "A320"

aircraft_map(route) ==
    CASE route = "JFK-LAX" -> "A321 Mint"
      [] route = "JFK-SFO" -> "A321 Mint"
      [] route = "JFK-SAN" -> "A321 Mint"
      [] route = "BOS-SEA" -> "A321"
      [] route = "BOS-DEN" -> "A320"
      [] route = "BOS-MCO" -> "A320"
      [] route = "BOS-CHS" -> "A220"
      [] route = "FLL-AUS" -> "A220"
      [] route = "FLL-EWR" -> "A220"
      [] route = "JFK-AUS" -> "A320"
      [] OTHER -> NA

assign_aircraft_types(t) ==
    [i \in Rows(t) |-> SetCol(t[i], "aircraft_type", aircraft_map(t[i].route))]

seat_map(ac) ==
    CASE ac = "A220" -> Int2F(140)
      [] ac = "A320" -> Int2F(162)
      [] ac = "A321" -> Int2F(200)
      [] ac = "A321 Mint" -> Int2F(159)
      [] OTHER -> NaN

add_seat_configuration(t) ==
    [i \in Rows(t) |->
        SetCol(t[i], "seats_configured", seat_map(t[i].aircraft_type))]

\* The sort key with the month left out.
OdKey(r) == <<AirportOrd(r.origin), AirportOrd(r.destination), 0>>

\* The key of sort_values(["origin", "destination", "month"]).
OdmKey(r) == <<AirportOrd(r.origin), AirportOrd(r.destination), MonthOrd(r.month)>>

\* enrich_routes raises KeyError on df["month"] and on the sort keys when the
\* column is missing, and ValueError when a month does not parse.
enrich_routes_raises(t) ==
    \/ ~({"month", "origin", "destination"} \subseteq Columns(t))
    \/ \E i \in Rows(t) : Unparsable(t[i].month)

\* enrich_routes works on a copy: parse month, sort, then the three columns.
enrich_routes(t) ==
    LET parsed == [i \in Rows(t) |-> [t[i] EXCEPT !.month = ToDatetime(t[i].month)]]
        sorted == StableSort(parsed, [i \in Rows(parsed) |-> OdmKey(parsed[i])])
    IN  add_seat_configuration(assign_aircraft_types(prepare_route_identifier(sorted)))

(***************************************************************************)
(* financial_metrics.py                                                    *)
(***************************************************************************)
COST_PER_PAX == 65

COST_PER_FLIGHT == 18000

FLIGHTS_PER_MONTH == 30

\* df["passengers"] * df["avg_fare"] raises KeyError when either is missing.
calculate_revenue_raises(t) == ~({"passengers", "avg_fare"} \subseteq Columns(t))

calculate_revenue(t) ==
    [i \in Rows(t) |-> SetCol(t[i], "revenue", FMul(t[i].passengers, t[i].avg_fare))]

calculate_cost(t) ==
    [i \in Rows(t) |-> SetCol(t[i], "cost",
        FAdd(FMul(t[i].passengers, Int2F(COST_PER_PAX)),
             Int2F(COST_PER_FLIGHT * FLIGHTS_PER_MONTH)))]

\* The margin taken over cost instead of revenue.
calculate_profit_over_cost(t) ==
    [i \in Rows(t) |->
        LET profit == FSub(t[i].revenue, t[i].cost)
        IN  SetCol(SetCol(t[i], "profit", profit),
                   "profit_margin", FDiv(profit, t[i].cost))]

calculate_profit(t) ==
    [i \in Rows(t) |->
        LET profit == FSub(t[i].revenue, t[i].cost)
        IN  SetCol(SetCol(t[i], "profit", profit),
                   "profit_margin", FDiv(profit, t[i].revenue))]

(***************************************************************************)
(* growth_metrics.py                                                       *)
(***************************************************************************)
\* String order of the route keys: the codes are three letters each, so the
\* order of "origin-destination" is the order of the pair of codes.
RouteOrdTable ==
    [r \in {RouteOf(Airports[i], Airports[j]) :
                i \in 1..Len(Airports), j \in 1..Len(Airports)} |->
        CHOOSE k \in 1..(Len(Airports) * Len(Airports)) :
            \E i \in 1..Len(Airports), j \in 1..Len(Airports) :
                /\ r = RouteOf(Airports[i], Airports[j])
                /\ k = (i - 1) * Len(Airports) + j]

RouteOrd(r) == RouteOrdTable[r]

\* The key of sort_values(["route", "month"]).
RouteMonthKey(r) == <<RouteOrd(r.route), MonthOrd(r.month)>>

\* A shift over the whole table, as if the groupby had been left out.
PlainShift(t, c) == [i \in 1..Len(t) |-> IF i = 1 THEN NaN ELSE t[i - 1][c]]

\* groupby("route")[c].shift(1): the value of c in the nearest earlier row of
\* the same route, NaN where there is none.
GroupShift(t, c) ==
    [i \in 1..Len(t) |->
        LET before == {j \in 1..(i - 1) : t[j].route = t[i].route}
        IN  IF before = {} THEN NaN
            ELSE t[CHOOSE j \in before : \A x \in before : x <= j][c]]

add_lag_metrics(t) ==
    LET sorted == StableSort(t, [i \in Rows(t) |-> RouteMonthKey(t[i])])
        lr == GroupShift(sorted, "revenue")
        lp == GroupShift(sorted, "profit")
        lx == GroupShift(sorted, "passengers")
    IN  [i \in 1..Len(sorted) |->
            SetCol(SetCol(SetCol(sorted[i], "lag_revenue", lr[i]),
                          "lag_profit", lp[i]),
                   "lag_passengers", lx[i])]

\* A growth of 0 where there is no lag, as fillna(0) would give.
GrowthFilled(cur, lag) == IF IsNaN(lag) THEN Int2F(0) ELSE FDiv(FSub(cur, lag), lag)

Growth(cur, lag) == FDiv(FSub(cur, lag), lag)

calculate_growth(t) ==
    [i \in Rows(t) |->
        SetCol(SetCol(t[i], "revenue_growth", Growth(t[i].revenue, t[i].lag_revenue)),
               "profit_growth", Growth(t[i].profit, t[i].lag_profit))]

\* The group keys of groupby("route"), in sorted order.
RouteKeys(t) ==
    LET ks == {t[i].route : i \in 1..Len(t)}
    IN  [p \in 1..Cardinality(ks) |->
            CHOOSE r \in ks : Cardinality({q \in ks : RouteOrd(q) < RouteOrd(r)}) = p - 1]

\* The values of column c in the rows of route r, in table order.
GroupValues(t, r, c) ==
    LET rows == SelectRows(t, {i \in 1..Len(t) : t[i].route = r})
    IN  [i \in 1..Len(rows) |-> rows[i][c]]

RECURSIVE FSum(_)
FSum(vs) == IF Len(vs) = 0 THEN Int2F(0) ELSE FAdd(vs[1], FSum(Tail(vs)))

DropNaN(vs) == SelectRows(vs, {i \in 1..Len(vs) : ~IsNaN(vs[i])})

\* The "sum" aggregation: NaN cells are skipped.
AggSum(vs) == FSum(DropNaN(vs))

\* A mean that skips NaN in the sum but divides by the size of the group.
AggMeanOverAll(vs) ==
    LET kept == DropNaN(vs)
    IN  IF Len(kept) = 0 THEN NaN ELSE FDiv(FSum(kept), Int2F(Len(vs)))

\* The "mean" aggregation: NaN cells are skipped, and a group with no other
\* cell has mean NaN.
AggMean(vs) ==
    LET kept == DropNaN(vs)
    IN  IF Len(kept) = 0 THEN NaN ELSE FDiv(FSum(kept), Int2F(Len(kept)))

\* A summary with one row per record, as if the groupby had been left out.
build_route_summary_per_record(t) ==
    [i \in 1..Len(t) |->
        [route |-> t[i].route,
         total_revenue |-> t[i].revenue,
         total_profit |-> t[i].profit,
         avg_revenue_growth |-> t[i].revenue_growth,
         avg_profit_growth |-> t[i].profit_growth]]

build_route_summary(t) ==
    LET ks == RouteKeys(t)
    IN  [p \in 1..Len(ks) |->
            [route |-> ks[p],
             total_revenue |-> AggSum(GroupValues(t, ks[p], "revenue")),
             total_profit |-> AggSum(GroupValues(t, ks[p], "profit")),
             avg_revenue_growth |-> AggMean(GroupValues(t, ks[p], "revenue_growth")),
             avg_profit_growth |-> AggMean(GroupValues(t, ks[p], "profit_growth"))]]

add_opportunity_score(rs) ==
    [p \in Rows(rs) |-> SetCol(rs[p], "opportunity_score",
        FAdd(FMul(Frac(1, 2), rs[p].avg_profit_growth),
             FMul(Frac(1, 2), rs[p].avg_revenue_growth)))]

\* The score assigned by row position, as a column assignment would align it.
merge_by_position(t, rs) ==
    [i \in 1..Len(t) |->
        SetCol(t[i], "opportunity_score",
               IF i <= Len(rs) THEN rs[i].opportunity_score ELSE NaN)]

\* df.merge(right[["route", "opportunity_score"]], on="route", how="left"):
\* one output row per matching right row, and one row with a NaN score for a
\* left row that has no match; left order is kept.
merge_opportunity_score(t, rs) ==
    Flatten([i \in 1..Len(t) |->
        LET m == SelectRows(rs, {j \in 1..Len(rs) : rs[j].route = t[i].route})
        IN  IF Len(m) = 0 THEN <<SetCol(t[i], "opportunity_score", NaN)>>
            ELSE [j \in 1..Len(m) |->
                    SetCol(t[i], "opportunity_score", m[j].opportunity_score)]])

(***************************************************************************)
(* enrich_routes.compute_fleet_utilization                                 *)
(***************************************************************************)
\* The aircraft types in string order, the order groupby gives its keys.
AircraftTypes == <<"A220", "A320", "A321", "A321 Mint">>

\* Group keys that keep the missing key, as groupby(dropna=False) has them.
FleetKeysWithNA(t) ==
    SelectRows(AircraftTypes \o <<NA>>,
               {k \in 1..(Len(AircraftTypes) + 1) :
                    \E i \in Rows(t) : t[i].aircraft_type = (AircraftTypes \o <<NA>>)[k]})

\* The group keys of groupby("aircraft_type"): a row whose key is missing is
\* in no group.
FleetKeys(t) ==
    SelectRows(AircraftTypes,
               {k \in 1..Len(AircraftTypes) :
                    \E i \in Rows(t) : t[i].aircraft_type = AircraftTypes[k]})

\* The values of column c in the rows of aircraft type ac, in table order.
TypeValues(t, ac, c) ==
    LET rows == SelectRows(t, {i \in 1..Len(t) : t[i].aircraft_type = ac})
    IN  [i \in 1..Len(rows) |-> rows[i][c]]

\* The "first" aggregation: the first cell of the group that is not NaN.
AggFirst(vs) ==
    LET kept == SelectRows(vs, {i \in 1..Len(vs) : ~IsNaN(vs[i])})
    IN  IF Len(kept) = 0 THEN NaN ELSE kept[1]

\* The load factor taken of the total instead of the mean.
compute_fleet_utilization_of_total(t) ==
    LET ks == FleetKeys(t)
    IN  [p \in 1..Len(ks) |->
            LET pax == TypeValues(t, ks[p], "passengers")
                seats == AggFirst(TypeValues(t, ks[p], "seats_configured"))
            IN  [aircraft_type |-> ks[p],
                 total_passengers |-> AggSum(pax),
                 avg_passengers_per_flight |-> AggMean(pax),
                 seats_configured |-> seats,
                 avg_load_factor_proxy |-> FDiv(AggSum(pax), seats)]]

compute_fleet_utilization(t) ==
    LET ks == FleetKeys(t)
    IN  [p \in 1..Len(ks) |->
            LET pax == TypeValues(t, ks[p], "passengers")
                seats == AggFirst(TypeValues(t, ks[p], "seats_configured"))
            IN  [aircraft_type |-> ks[p],
                 total_passengers |-> AggSum(pax),
                 avg_passengers_per_flight |-> AggMean(pax),
                 seats_configured |-> seats,
                 avg_load_factor_proxy |-> FDiv(AggMean(pax), seats)]]

\* The notebook's route-level aggregation of profit_margin.
route_summary_nb(t) ==
    LET ks == RouteKeys(t)
    IN  [p \in 1..Len(ks) |->
            [route |-> ks[p],
             avg_profit_margin |-> AggMean(GroupValues(t, ks[p], "profit_margin")),
             total_revenue |-> AggSum(GroupValues(t, ks[p], "revenue")),
             total_profit |-> AggSum(GroupValues(t, ks[p], "profit"))]]

(***************************************************************************)
(* The notebook's min_max_norm.                                            *)
(***************************************************************************)
\* The order of two float64 values, neither of them NaN.
FLess(a, b) ==
    IF IsInf(a) THEN a.n < 0 /\ ~(IsInf(b) /\ b.n < 0)
    ELSE IF IsInf(b) THEN b.n > 0
    ELSE a.n * b.d < b.n * a.d

\* Series.min() and Series.max(): NaN cells are skipped, and a series with no
\* other cell has NaN for both.
SeriesMin(vs) ==
    LET kept == DropNaN(vs)
    IN  IF Len(kept) = 0 THEN NaN
        ELSE kept[CHOOSE i \in 1..Len(kept) : \A j \in 1..Len(kept) : ~FLess(kept[j], kept[i])]

SeriesMax(vs) ==
    LET kept == DropNaN(vs)
    IN  IF Len(kept) = 0 THEN NaN
        ELSE kept[CHOOSE i \in 1..Len(kept) : \A j \in 1..Len(kept) : ~FLess(kept[i], kept[j])]

min_max_norm(vs) ==
    [i \in 1..Len(vs) |->
        FDiv(FSub(vs[i], SeriesMin(vs)), FSub(SeriesMax(vs), SeriesMin(vs)))]

\* route_summary["norm_profit_margin"] = min_max_norm(route_summary["avg_profit_margin"])
norm_profit_margin(rs) ==
    LET normed == min_max_norm([p \in Rows(rs) |-> rs[p].avg_profit_margin])
    IN  [p \in Rows(rs) |-> SetCol(rs[p], "norm_profit_margin", normed[p])]

\* No exception has been raised.
NoExc == [stage |-> "", kind |-> ""]

(***************************************************************************)
(* The pipeline of export_master.build_master_dataset, one step per call.  *)
(* heap holds the DataFrame objects, df is the one the pipeline's variable *)
(* df names; raw keeps the table as the loader returned it.                *)
(***************************************************************************)
Init ==
    /\ raw \in {t \in SeqsUpTo(MainRows, MaxRows) : UniqueKeys(t)}
                 \cup {t \in [1..3 -> QuarterRows] :
                            /\ SameRoute(t[1], t[2]) /\ SameRoute(t[2], t[3])
                            /\ UniqueKeys(t)}
                 \cup {<<a, b>> \in MainRows \X MainRows :
                            SameRoute(a, b) /\ a.month = b.month}
                 \cup {<<a>> : a \in WideRows}
                 \cup {<<a, b>> \in WideRows \X WideRows : SameRoute(a, b)}
                 \cup ScenarioTables
                 \cup ThreeRouteTables
                 \cup FaultyTables
    /\ heap = <<raw>>
    /\ df = 1
    /\ pc = "loaded"
    /\ route_summary = <<>>
    /\ nb_summary = <<>>
    /\ fleet_summary = <<>>
    /\ exc = NoExc

\* clean_data assigns the columns of the table it is given and returns it.
CleanData ==
    /\ pc = "loaded"
    /\ IF clean_data_raises(heap[df])
       THEN /\ pc' = "raised"
            /\ exc' = [stage |-> "clean_data", kind |-> "ValueError"]
            /\ UNCHANGED heap
       ELSE /\ pc' = "cleaned"
            /\ heap' = [heap EXCEPT ![df] = clean_data(heap[df])]
            /\ UNCHANGED exc
    /\ UNCHANGED <<raw, df, route_summary, nb_summary, fleet_summary>>

\* enrich_routes works on df.copy(), a new object.
EnrichRoutes ==
    /\ pc = "cleaned"
    /\ IF enrich_routes_raises(heap[df])
       THEN /\ pc' = "raised"
            /\ exc' = [stage |-> "enrich_routes", kind |-> "KeyError"]
            /\ UNCHANGED <<heap, df>>
       ELSE /\ pc' = "enriched"
            /\ heap' = Append(heap, enrich_routes(heap[df]))
            /\ df' = Len(heap) + 1
            /\ UNCHANGED exc
    /\ UNCHANGED <<raw, route_summary, nb_summary, fleet_summary>>

\* The three steps of apply_financial_metrics, each assigning columns of the
\* table it is given.
CalculateRevenue ==
    /\ pc = "enriched"
    /\ IF calculate_revenue_raises(heap[df])
       THEN /\ pc' = "raised"
            /\ exc' = [stage |-> "apply_financial_metrics", kind |-> "KeyError"]
            /\ UNCHANGED heap
       ELSE /\ pc' = "revenue"
            /\ heap' = [heap EXCEPT ![df] = calculate_revenue(heap[df])]
            /\ UNCHANGED exc
    /\ UNCHANGED <<raw, df, route_summary, nb_summary, fleet_summary>>

CalculateCost ==
    /\ pc = "revenue"
    /\ pc' = "cost"
    /\ heap' = [heap EXCEPT ![df] = calculate_cost(heap[df])]
    /\ UNCHANGED <<raw, df, route_summary, nb_summary, fleet_summary, exc>>

CalculateProfit ==
    /\ pc = "cost"
    /\ pc' = "financial"
    /\ heap' = [heap EXCEPT ![df] = calculate_profit(heap[df])]
    /\ UNCHANGED <<raw, df, route_summary, nb_summary, fleet_summary, exc>>

\* The steps of apply_growth_metrics.  sort_values returns a new object, and
\* add_lag_metrics assigns the lag columns to that one.
AddLagMetrics ==
    /\ pc = "financial"
    /\ pc' = "lagged"
    /\ heap' = Append(heap, add_lag_metrics(heap[df]))
    /\ df' = Len(heap) + 1
    /\ UNCHANGED <<raw, route_summary, nb_summary, fleet_summary, exc>>

CalculateGrowth ==
    /\ pc = "lagged"
    /\ pc' = "grown"
    /\ heap' = [heap EXCEPT ![df] = calculate_growth(heap[df])]
    /\ UNCHANGED <<raw, df, route_summary, nb_summary, fleet_summary, exc>>

BuildRouteSummary ==
    /\ pc = "grown"
    /\ pc' = "summarised"
    /\ route_summary' = build_route_summary(heap[df])
    /\ UNCHANGED <<raw, heap, df, nb_summary, fleet_summary, exc>>

AddOpportunityScore ==
    /\ pc = "summarised"
    /\ pc' = "scored"
    /\ route_summary' = add_opportunity_score(route_summary)
    /\ UNCHANGED <<raw, heap, df, nb_summary, fleet_summary, exc>>

MergeOpportunityScore ==
    /\ pc = "scored"
    /\ pc' = "merged"
    /\ heap' = Append(heap, merge_opportunity_score(heap[df], route_summary))
    /\ df' = Len(heap) + 1
    /\ UNCHANGED <<raw, route_summary, nb_summary, fleet_summary, exc>>

\* The notebook's summary, taken of the exported monthly table.
NotebookRouteSummary ==
    /\ pc = "merged"
    /\ pc' = "done"
    /\ nb_summary' = route_summary_nb(heap[df])
    /\ UNCHANGED <<raw, heap, df, route_summary, fleet_summary, exc>>

\* The notebook's normalisation of the summary's avg_profit_margin.
NormaliseProfitMargin ==
    /\ pc = "done"
    /\ pc' = "normalised"
    /\ nb_summary' = norm_profit_margin(nb_summary)
    /\ UNCHANGED <<raw, heap, df, route_summary, fleet_summary, exc>>

\* compute_fleet_utilization, taken of the exported monthly table; it reads
\* the table and builds a new one.
ComputeFleetUtilization ==
    /\ pc = "normalised"
    /\ pc' = "fleet"
    /\ fleet_summary' = compute_fleet_utilization(heap[df])
    /\ UNCHANGED <<raw, heap, df, route_summary, nb_summary, exc>>

Next ==
    \/ CleanData
    \/ EnrichRoutes
    \/ CalculateRevenue
    \/ CalculateCost
    \/ CalculateProfit
    \/ AddLagMetrics
    \/ CalculateGrowth
    \/ BuildRouteSummary
    \/ AddOpportunityScore
    \/ MergeOpportunityScore
    \/ NotebookRouteSummary
    \/ NormaliseProfitMargin
    \/ ComputeFleetUtilization

Spec == Init /\ [][Next]_vars

\* The table the pipeline's df names now.
Df == heap[df]

(***************************************************************************)
(* Stages of the run, for the claims.                                      *)
(***************************************************************************)
Stages == <<"raised", "loaded", "cleaned", "enriched", "revenue", "cost", "financial",
            "lagged", "grown", "summarised", "scored", "merged", "done",
            "normalised", "fleet">>

StageOrd(p) == CHOOSE i \in 1..Len(Stages) : Stages[i] = p

\* The step named p has been taken, and no step has raised.
After(p) == StageOrd(pc) >= StageOrd(p)

\* Row i is the first row of its route in table order.
FirstOfRoute(t, i) == i = 1 \/ t[i - 1].route # t[i].route

(***************************************************************************)
(* C1.  After add_lag_metrics the table is in (route, month) order; the    *)
(* first record of every route has lag_revenue, lag_profit and             *)
(* lag_passengers undefined, and every other record's lag_X is the value   *)
(* of X in the row just before it, which is a row of the same route,       *)
(* whatever the distance between the two months.                           *)
(***************************************************************************)
C1_LagIsPrecedingRow ==
    After("lagged") =>
        /\ \A i \in Rows(Df) \ {1} :
            ~LexLess(RouteMonthKey(Df[i]), RouteMonthKey(Df[i - 1]))
        /\ \A i \in Rows(Df) :
            IF FirstOfRoute(Df, i)
            THEN /\ IsNaN(Df[i].lag_revenue)
                 /\ IsNaN(Df[i].lag_profit)
                 /\ IsNaN(Df[i].lag_passengers)
            ELSE /\ Df[i].lag_revenue = Df[i - 1].revenue
                 /\ Df[i].lag_profit = Df[i - 1].profit
                 /\ Df[i].lag_passengers = Df[i - 1].passengers

\* Two routes; one has January and March but no February, and its March row
\* carries January's values, which differ from its own.
C1_Witness ==
    /\ pc = "lagged"
    /\ \E i, j \in Rows(Df) : Df[i].route # Df[j].route
    /\ \E i \in Rows(Df) \ {1} :
        /\ Df[i].route = Df[i - 1].route
        /\ Df[i - 1].month = Timestamps[1]
        /\ Df[i].month = Timestamps[3]
        /\ Df[i].lag_revenue = Df[i - 1].revenue
        /\ Df[i].lag_revenue # Df[i].revenue
        /\ Df[i].lag_passengers # Df[i].passengers
        /\ Df[i].lag_profit # Df[i].profit

(***************************************************************************)
(* C2.  Growth is the undefined sentinel whenever the lag value is zero or *)
(* undefined, for any current value: revenue_growth and profit_growth are  *)
(* NaN in every record whose lag_revenue, lag_profit is 0 or NaN.          *)
(***************************************************************************)
IsZero(x) == IsFinite(x) /\ x.n = 0

C2_GrowthUndefinedOnZeroLag ==
    After("grown") =>
        \A i \in Rows(Df) :
            /\ (IsNaN(Df[i].lag_revenue) \/ IsZero(Df[i].lag_revenue))
                    => IsNaN(Df[i].revenue_growth)
            /\ (IsNaN(Df[i].lag_profit) \/ IsZero(Df[i].lag_profit))
                    => IsNaN(Df[i].profit_growth)

(***************************************************************************)
(* C3.  Once apply_financial_metrics has returned, every record has all    *)
(* four of revenue, cost, profit and profit_margin, with                   *)
(* revenue = passengers * avg_fare, cost = passengers * 65 + 18000 * 30,   *)
(* profit = revenue - cost, and profit_margin the quotient profit/revenue: *)
(* profit_margin * revenue = profit where revenue is not 0, and no finite  *)
(* number where it is.                                                     *)
(***************************************************************************)
FinancialColumns == {"revenue", "cost", "profit", "profit_margin"}

C3_FinancialIdentities ==
    After("financial") =>
        \A i \in Rows(Df) :
            LET r == Df[i] IN
            /\ FinancialColumns \subseteq DOMAIN r
            /\ IsFinite(r.revenue) /\ r.revenue.d = 1
            /\ r.revenue.n = r.passengers.n * r.avg_fare.n
            /\ IsFinite(r.cost) /\ r.cost.d = 1
            /\ r.cost.n = r.passengers.n * 65 + 18000 * 30
            /\ IsFinite(r.profit) /\ r.profit.d = 1
            /\ r.profit.n = r.revenue.n - r.cost.n
            /\ IF r.revenue.n # 0
               THEN /\ IsFinite(r.profit_margin)
                    /\ r.profit_margin.n * r.revenue.n = r.profit.n * r.profit_margin.d
               ELSE ~IsFinite(r.profit_margin)

\* The stage has just returned a table with a profitable and a loss-making
\* record.
C3_Witness ==
    /\ pc = "financial"
    /\ \E i, j \in Rows(Df) :
        /\ Df[i].profit.n > 0 /\ Df[i].profit_margin.n > 0
        /\ Df[j].profit.n < 0 /\ Df[j].revenue.n = 0

(***************************************************************************)
(* C4.  A record with revenue 0 has an undefined profit_margin, and the    *)
(* route's avg_profit_margin is the mean of the margins of its other       *)
(* records only (undefined when it has no other record).                   *)
(***************************************************************************)
C4_ZeroRevenueMarginUndefined ==
    /\ After("financial") =>
        \A i \in Rows(Df) : IsZero(Df[i].revenue) => IsNaN(Df[i].profit_margin)
    /\ pc = "done" =>
        \A p \in Rows(nb_summary) :
            LET mine == {i \in Rows(Df) : Df[i].route = nb_summary[p].route}
                rest == {i \in mine : ~IsZero(Df[i].revenue)}
            IN  IF rest = {} THEN IsNaN(nb_summary[p].avg_profit_margin)
                ELSE nb_summary[p].avg_profit_margin
                        = AggMean(SelectRows([i \in Rows(Df) |-> Df[i].profit_margin], rest))

(***************************************************************************)
(* C5.  In the monthly table returned by apply_growth_metrics every        *)
(* record's opportunity_score is the opportunity_score of the one row of   *)
(* the returned route_summary that has its route, so the scores of the     *)
(* records of a route form a set of one element.                           *)
(***************************************************************************)
RoutesOf(t) == {t[i].route : i \in Rows(t)}

C5_ScoreBroadcast ==
    After("merged") =>
        /\ \A i \in Rows(Df) :
            /\ Cardinality({p \in Rows(route_summary) :
                                route_summary[p].route = Df[i].route}) = 1
            /\ \A p \in Rows(route_summary) :
                route_summary[p].route = Df[i].route
                    => Df[i].opportunity_score = route_summary[p].opportunity_score
        /\ \A r \in RoutesOf(Df) :
            Cardinality({Df[i].opportunity_score :
                            i \in {j \in Rows(Df) : Df[j].route = r}}) = 1

\* Two routes: one with several records and a finite score, the other with a
\* different score.
C5_Witness ==
    /\ pc = "merged"
    /\ \E i, j, k \in Rows(Df) :
        /\ i # j
        /\ Df[i].route = Df[j].route
        /\ Df[k].route # Df[i].route
        /\ IsFinite(Df[i].opportunity_score)
        /\ Df[i].opportunity_score # Df[k].opportunity_score

(***************************************************************************)
(* C6.  merge_opportunity_score neither adds nor drops records: its result *)
(* has as many rows as its input, row for row the input's record with      *)
(* every prior column unchanged, and opportunity_score is the only column  *)
(* added.                                                                  *)
(***************************************************************************)
\* The table merge_opportunity_score was given: the object df named before.
MergeInput == heap[df - 1]

C6_MergeKeepsRecords ==
    After("merged") =>
        /\ Len(Df) = Len(MergeInput)
        /\ \A i \in Rows(Df) :
            /\ "opportunity_score" \notin DOMAIN MergeInput[i]
            /\ DOMAIN Df[i] = (DOMAIN MergeInput[i]) \cup {"opportunity_score"}
            /\ \A c \in DOMAIN MergeInput[i] : Df[i][c] = MergeInput[i][c]

\* A route with two records went through the merge, beside another route.
C6_Witness ==
    /\ pc = "merged"
    /\ Len(Df) >= 3
    /\ Cardinality(RoutesOf(Df)) = 2

(***************************************************************************)
(* C7.  When month is unique within each (origin, destination) of the      *)
(* input, the table after clean_data and enrich_routes, and the table      *)
(* add_lag_metrics works on, has the months of every route strictly        *)
(* increasing in table order, whatever the order of the input rows.        *)
(***************************************************************************)
C7_MonthsIncreasePerRoute ==
    (After("enriched") /\ UniqueKeys(raw)) =>
        \A i, j \in Rows(Df) :
            (i < j /\ Df[i].route = Df[j].route)
                => MonthOrd(Df[i].month) < MonthOrd(Df[j].month)

\* The input had a route's months in descending order, and another route
\* between them.
C7_Witness ==
    /\ pc = "enriched"
    /\ Len(raw) = 3
    /\ UniqueKeys(raw)
    /\ SameRoute(raw[1], raw[3])
    /\ ~SameRoute(raw[1], raw[2])
    /\ MonthOrd(raw[1].month) > MonthOrd(raw[3].month)
    /\ \E i \in Rows(Df) \ {1} :
        /\ Df[i].route = Df[i - 1].route
        /\ MonthOrd(Df[i - 1].month) < MonthOrd(Df[i].month)

(***************************************************************************)
(* C8.  Each of the ten listed routes gets its fixed aircraft type; a      *)
(* record of any other route gets an undefined aircraft_type and an        *)
(* undefined seats_configured, and keeps them, and its place in the table, *)
(* through the whole pipeline: every input record is in the table at every *)
(* later stage, and none has a default value.                              *)
(***************************************************************************)
ListedType(route) ==
    IF route \in {"JFK-LAX", "JFK-SFO", "JFK-SAN"} THEN "A321 Mint"
    ELSE IF route = "BOS-SEA" THEN "A321"
    ELSE IF route \in {"BOS-DEN", "BOS-MCO", "JFK-AUS"} THEN "A320"
    ELSE IF route \in {"BOS-CHS", "FLL-AUS", "FLL-EWR"} THEN "A220"
    ELSE NA

\* Row r of a later table is input record x.
IsRecord(r, x) ==
    \A c \in DOMAIN x :
        IF c = "month" THEN MonthOrd(r.month) = MonthOrd(x.month) ELSE r[c] = x[c]

C8_UnmappedKeptUndefined ==
    After("enriched") =>
        /\ Len(Df) = Len(raw)
        /\ \A x \in Rows(raw) :
            Cardinality({i \in Rows(Df) : IsRecord(Df[i], raw[x])})
                = Cardinality({y \in Rows(raw) : IsRecord(raw[y], raw[x])})
        /\ \A i \in Rows(Df) :
            /\ Df[i].aircraft_type = ListedType(Df[i].route)
            /\ Df[i].aircraft_type = NA => IsNaN(Df[i].seats_configured)

\* The run has ended with a record of an unlisted route still in the table,
\* beside a record of a listed one.
C8_Witness ==
    /\ pc = "done"
    /\ \E i, j \in Rows(Df) :
        /\ Df[i].aircraft_type = NA
        /\ IsNaN(Df[i].seats_configured)
        /\ Df[j].aircraft_type = "A321 Mint"

(***************************************************************************)
(* C9.  After enrich_routes, route is origin, "-", destination for every   *)
(* record, and two records of the same route have the same aircraft_type   *)
(* and the same seats_configured, whatever their months.                   *)
(***************************************************************************)
C9_RouteDeterminesAircraft ==
    After("enriched") =>
        /\ \A i \in Rows(Df) : Df[i].route = Df[i].origin \o "-" \o Df[i].destination
        /\ \A i, j \in Rows(Df) :
            Df[i].route = Df[j].route
                => /\ Df[i].aircraft_type = Df[j].aircraft_type
                   /\ Df[i].seats_configured = Df[j].seats_configured

\* Two records of a listed route, in different months.
C9_Witness ==
    /\ pc = "enriched"
    /\ \E i, j \in Rows(Df) :
        /\ Df[i].route = "BOS-SEA"
        /\ Df[j].route = "BOS-SEA"
        /\ Df[i].month # Df[j].month
        /\ Df[i].aircraft_type = "A321"
        /\ Df[j].seats_configured = Int2F(200)

(***************************************************************************)
(* C10.  build_route_summary returns one row per distinct route of its     *)
(* input; total_revenue and total_profit are the sums of revenue and       *)
(* profit over the route's records; avg_revenue_growth and                 *)
(* avg_profit_growth are the arithmetic mean of the route's growth values  *)
(* that are not the undefined sentinel, and undefined when it has none.    *)
(* (An infinite growth is a value to the mean: the mean of values that     *)
(* hold an infinity is that infinity, and no number when they hold both.)  *)
(***************************************************************************)
RECURSIVE SumOver(_, _)
SumOver(S, f) ==
    IF S = {} THEN 0
    ELSE LET x == CHOOSE y \in S : TRUE IN f[x] + SumOver(S \ {x}, f)

RECURSIVE ProdOver(_, _)
ProdOver(S, f) ==
    IF S = {} THEN 1
    ELSE LET x == CHOOSE y \in S : TRUE IN f[x] * ProdOver(S \ {x}, f)

\* avg is the mean of the cells of column c in rows idx of t that are not NaN.
IsMeanOfDefined(avg, t, idx, c) ==
    LET def == {i \in idx : ~IsNaN(t[i][c])}
        fin == {i \in def : IsFinite(t[i][c])}
        L == ProdOver(fin, [i \in fin |-> t[i][c].d])
    IN  IF def = {} THEN IsNaN(avg)
        ELSE IF fin = def
        THEN /\ IsFinite(avg)
             /\ avg.n * Cardinality(def) * L
                    = avg.d * SumOver(def, [i \in def |-> t[i][c].n * (L \div t[i][c].d)])
        ELSE IF \E i, j \in def \ fin : t[i][c].n # t[j][c].n
        THEN IsNaN(avg)
        ELSE \A i \in def \ fin : avg = t[i][c]

C10_RouteSummaryAggregates ==
    After("summarised") =>
        /\ Len(route_summary) = Cardinality(RoutesOf(Df))
        /\ RoutesOf(route_summary) = RoutesOf(Df)
        /\ \A p \in Rows(route_summary) :
            LET idx == {i \in Rows(Df) : Df[i].route = route_summary[p].route} IN
            /\ route_summary[p].total_revenue
                    = Int2F(SumOver(idx, [i \in idx |-> Df[i].revenue.n]))
            /\ route_summary[p].total_profit
                    = Int2F(SumOver(idx, [i \in idx |-> Df[i].profit.n]))
            /\ IsMeanOfDefined(route_summary[p].avg_revenue_growth, Df, idx, "revenue_growth")
            /\ IsMeanOfDefined(route_summary[p].avg_profit_growth, Df, idx, "profit_growth")

\* A route with three records whose two defined revenue growths are finite and
\* differ, so that the mean is of more than one value.
C10_Witness ==
    /\ pc = "summarised"
    /\ Len(Df) = 3
    /\ Df[1].route = Df[3].route
    /\ IsNaN(Df[1].revenue_growth)
    /\ IsFinite(Df[2].revenue_growth)
    /\ IsFinite(Df[3].revenue_growth)
    /\ Df[2].revenue_growth # Df[3].revenue_growth
    /\ IsFinite(route_summary[1].avg_revenue_growth)
    /\ route_summary[1].avg_revenue_growth # Df[2].revenue_growth
    /\ route_summary[1].avg_revenue_growth # Df[3].revenue_growth

(***************************************************************************)
(* C11.  In the monthly table returned by apply_growth_metrics every       *)
(* record carries a passenger_growth, a revenue_growth and a profit_growth *)
(* field, each the quotient (cur - lag) / lag of its metric: undefined for *)
(* an undefined lag, and the number g with g * lag = cur - lag for a lag   *)
(* that is a number other than 0.                                          *)
(***************************************************************************)
GrowthColumns == {"passenger_growth", "revenue_growth", "profit_growth"}

\* g is (cur - lag) / lag, for whole-number cur and lag.
IsGrowthOf(g, cur, lag) ==
    IF IsNaN(lag) THEN IsNaN(g)
    ELSE IF lag.n = 0 THEN ~IsFinite(g)
    ELSE IsFinite(g) /\ g.n * lag.n = (cur.n - lag.n) * g.d

C11_GrowthForAllThree ==
    After("merged") =>
        \A i \in Rows(Df) :
            /\ GrowthColumns \subseteq DOMAIN Df[i]
            /\ IsGrowthOf(Df[i].passenger_growth, Df[i].passengers, Df[i].lag_passengers)
            /\ IsGrowthOf(Df[i].revenue_growth, Df[i].revenue, Df[i].lag_revenue)
            /\ IsGrowthOf(Df[i].profit_growth, Df[i].profit, Df[i].lag_profit)

(***************************************************************************)
(* C12.  For the input with JFK-LAX over three months with passengers 100, *)
(* 150, 120 and BOS-SEA over two months with passengers 80, 88, the        *)
(* pipeline returns a monthly table in which JFK-LAX has "A321 Mint" and   *)
(* 159 seats and BOS-SEA has "A321" and 200 seats, the passenger growth of *)
(* JFK-LAX is 0.5 in month 2 and -0.2 in month 3 and that of BOS-SEA is    *)
(* 0.1 in month 2, and a route summary of exactly 2 rows.                  *)
(***************************************************************************)
\* <<origin, destination, month, passengers>> of the rows of t.
PassengerFacts(t) ==
    {<<t[i].origin, t[i].destination, MonthOrd(t[i].month), t[i].passengers>> :
        i \in Rows(t)}

IsScenario(t) ==
    /\ Len(t) = 5
    /\ PassengerFacts(t) =
            {<<"JFK", "LAX", 1, Int2F(100)>>, <<"JFK", "LAX", 2, Int2F(150)>>,
             <<"JFK", "LAX", 3, Int2F(120)>>, <<"BOS", "SEA", 1, Int2F(80)>>,
             <<"BOS", "SEA", 2, Int2F(88)>>}

\* Every record of the route in month number m has passenger growth g.
HasPassengerGrowth(route, m, g) ==
    \A i \in Rows(Df) :
        (Df[i].route = route /\ MonthOrd(Df[i].month) = m)
            => ("passenger_growth" \in DOMAIN Df[i] /\ Df[i].passenger_growth = g)

C12_EndToEndScenario ==
    (After("merged") /\ IsScenario(raw)) =>
        /\ Len(Df) = 5
        /\ \A i \in Rows(Df) :
            /\ Df[i].route = "JFK-LAX" =>
                    (Df[i].aircraft_type = "A321 Mint" /\ Df[i].seats_configured = Int2F(159))
            /\ Df[i].route = "BOS-SEA" =>
                    (Df[i].aircraft_type = "A321" /\ Df[i].seats_configured = Int2F(200))
        /\ HasPassengerGrowth("JFK-LAX", 2, Frac(1, 2))
        /\ HasPassengerGrowth("JFK-LAX", 3, Frac(-1, 5))
        /\ HasPassengerGrowth("BOS-SEA", 2, Frac(1, 10))
        /\ Len(route_summary) = 2

(***************************************************************************)
(* C13.  compute_fleet_utilization returns one row per aircraft type that  *)
(* a record has; total_passengers is the sum of passengers over exactly    *)
(* the records of that type, avg_passengers_per_flight is their mean,      *)
(* seats_configured is the seat count of the type, and                     *)
(* avg_load_factor_proxy is avg_passengers_per_flight / seats_configured.  *)
(***************************************************************************)
ListedSeats(ac) ==
    IF ac = "A220" THEN 140
    ELSE IF ac = "A320" THEN 162
    ELSE IF ac = "A321" THEN 200
    ELSE 159

\* The aircraft types that records of t have.
TypesOf(t) == {t[i].aircraft_type : i \in Rows(t)} \ {NA}

C13_FleetSummaryAggregates ==
    After("fleet") =>
        /\ {fleet_summary[p].aircraft_type : p \in Rows(fleet_summary)} = TypesOf(Df)
        /\ Len(fleet_summary) = Cardinality(TypesOf(Df))
        /\ \A p \in Rows(fleet_summary) :
            LET row == fleet_summary[p]
                idx == {i \in Rows(Df) : Df[i].aircraft_type = row.aircraft_type}
                total == SumOver(idx, [i \in idx |-> Df[i].passengers.n])
            IN  /\ row.total_passengers = Int2F(total)
                /\ IsFinite(row.avg_passengers_per_flight)
                /\ row.avg_passengers_per_flight.n * Cardinality(idx)
                        = total * row.avg_passengers_per_flight.d
                /\ row.seats_configured = Int2F(ListedSeats(row.aircraft_type))
                /\ IsFinite(row.avg_load_factor_proxy)
                /\ row.avg_load_factor_proxy.n * ListedSeats(row.aircraft_type)
                            * row.avg_passengers_per_flight.d
                        = row.avg_passengers_per_flight.n * row.avg_load_factor_proxy.d

\* Two aircraft types, one of them with three records whose passengers sum
\* to 370, so that the mean is not the total and not a whole number.
C13_Witness ==
    /\ pc = "fleet"
    /\ Len(fleet_summary) = 2
    /\ \E p \in Rows(fleet_summary) :
        /\ fleet_summary[p].aircraft_type = "A321 Mint"
        /\ fleet_summary[p].total_passengers = Int2F(370)
        /\ fleet_summary[p].avg_passengers_per_flight = Frac(370, 3)
        /\ fleet_summary[p].avg_load_factor_proxy = Frac(370, 477)

(***************************************************************************)
(* C14.  When the raw table lacks a required column or has a month that    *)
(* cannot be parsed, clean_data itself ends in an error: the run never     *)
(* gets past the loaded table, and the stage that raised is clean_data.    *)
(***************************************************************************)
RequiredColumns == {"origin", "destination", "month", "passengers", "avg_fare"}

StructuralViolation(t) ==
    \/ ~(RequiredColumns \subseteq Columns(t))
    \/ \E i \in Rows(t) : "month" \in DOMAIN t[i] /\ t[i].month = BadMonth

C14_FailFastAtCleaner ==
    StructuralViolation(raw) =>
        /\ pc \in {"loaded", "raised"}
        /\ pc = "raised" => exc.stage = "clean_data"

(***************************************************************************)
(* C15.  clean_data, enrich_routes, apply_financial_metrics and            *)
(* apply_growth_metrics are pure transforms: no step of a stage changes    *)
(* the columns or the values of the table object the stage was given, and  *)
(* the table a stage returns is another object than the one it was given.  *)
(***************************************************************************)
\* The places of the run at which a step of one of the four stages is next.
InStage == {"loaded", "cleaned", "enriched", "revenue", "cost", "financial",
            "lagged", "grown", "summarised", "scored"}

\* The places of the run at which a stage has just returned.
Returned == {"cleaned", "enriched", "financial", "merged"}

\* The object the running stage was given: the one df names, and inside
\* apply_growth_metrics, once the sort has made its own table, the one before.
StageArg == IF pc \in {"lagged", "grown", "summarised", "scored"} THEN df - 1 ELSE df

\* A step that leaves the running stage's argument as it was, and that, when
\* the stage returns with it, returns another object.
PureStep ==
    pc \in InStage =>
        /\ heap'[StageArg] = heap[StageArg]
        /\ pc' \in Returned => df' # StageArg

C15_StagesArePure == [][PureStep]_vars

(***************************************************************************)
(* C16.  For every route of the summary apply_growth_metrics returns,      *)
(* opportunity_score = 0.5 * avg_profit_growth + 0.5 * avg_revenue_growth  *)
(* (twice the score is the sum of the two averages), and the score is      *)
(* undefined exactly when at least one of the two averages is undefined.   *)
(***************************************************************************)
C16_OneScoreFormula ==
    After("scored") =>
        \A p \in Rows(route_summary) :
            LET a == route_summary[p].avg_profit_growth
                b == route_summary[p].avg_revenue_growth
                score == route_summary[p].opportunity_score
            IN  /\ (IsFinite(a) /\ IsFinite(b)) =>
                        (IsFinite(score) /\ FAdd(score, score) = FAdd(a, b))
                /\ IsNaN(score) <=> (IsNaN(a) \/ IsNaN(b))

(***************************************************************************)
(* C17.  min_max_norm of a route-summary column whose values are not all   *)
(* the same gives 0 at every row that has the column's minimum, 1 at every *)
(* row that has its maximum, and a value between 0 and 1 at every other    *)
(* defined row; of a column whose values are all the same it gives the     *)
(* undefined sentinel at every row.  The column is avg_profit_margin, the  *)
(* one of the summary that the notebook normalises.                        *)
(***************************************************************************)
C17_MinMaxNorm ==
    After("normalised") =>
        LET col == [p \in Rows(nb_summary) |-> nb_summary[p].avg_profit_margin]
            norm == [p \in Rows(nb_summary) |-> nb_summary[p].norm_profit_margin]
            def == {p \in Rows(nb_summary) : ~IsNaN(col[p])}
            IsMin(p) == \A q \in def : ~FLess(col[q], col[p])
            IsMax(p) == \A q \in def : ~FLess(col[p], col[q])
        IN  IF \E p, q \in def : col[p] # col[q]
            THEN \A p \in def :
                    /\ IsMin(p) => norm[p] = Int2F(0)
                    /\ IsMax(p) => norm[p] = Int2F(1)
                    /\ IsFinite(norm[p])
                    /\ ~FLess(norm[p], Int2F(0))
                    /\ ~FLess(Int2F(1), norm[p])
            ELSE \A p \in Rows(nb_summary) : IsNaN(norm[p])

(***************************************************************************)
(* C18.  compute_fleet_utilization leaves out the records with an          *)
(* undefined aircraft_type: no row of the fleet summary is theirs, the     *)
(* summary has at most four rows, and total_passengers summed over its     *)
(* rows is the sum of passengers over the records whose route is in the    *)
(* aircraft lookup table, and over no other.                               *)
(***************************************************************************)
ListedRoutes == {"JFK-LAX", "JFK-SFO", "JFK-SAN", "BOS-SEA", "BOS-DEN", "BOS-MCO",
                 "BOS-CHS", "FLL-AUS", "FLL-EWR", "JFK-AUS"}

C18_FleetExcludesUndefined ==
    After("fleet") =>
        LET listed == {i \in Rows(Df) : Df[i].route \in ListedRoutes}
            rows == Rows(fleet_summary)
        IN  /\ \A p \in rows : fleet_summary[p].aircraft_type \in Range(AircraftTypes)
            /\ Len(fleet_summary) <= 4
            /\ \A p \in rows : IsFinite(fleet_summary[p].total_passengers)
                                  /\ fleet_summary[p].total_passengers.d = 1
            /\ SumOver(rows, [p \in rows |-> fleet_summary[p].total_passengers.n])
                    = SumOver(listed, [i \in listed |-> Df[i].passengers.n])

\* The table has records of a route outside the lookup table, with
\* passengers, beside records of a listed route, and the summary's one row
\* counts the listed ones only.
C18_Witness ==
    /\ pc = "fleet"
    /\ Len(fleet_summary) = 1
    /\ \E i, j \in Rows(Df) :
        /\ Df[i].aircraft_type = NA
        /\ Df[i].passengers = Int2F(5400)
        /\ Df[j].aircraft_type = "A321 Mint"
        /\ Df[j].passengers = Int2F(5400)
    /\ fleet_summary[1].total_passengers = Int2F(5400)

(***************************************************************************)
(* C19.  A route with exactly one record has no defined growth value:      *)
(* apply_growth_metrics gives it an undefined avg_revenue_growth and       *)
(* avg_profit_growth and an undefined opportunity_score, its record        *)
(* carries that undefined score after the merge, and the route is a row of *)
(* the route summary.                                                      *)
(***************************************************************************)
C19_SingleRecordRoute ==
    After("merged") =>
        \A i \in Rows(Df) :
            (\A j \in Rows(Df) : Df[j].route = Df[i].route => j = i) =>
                /\ IsNaN(Df[i].revenue_growth)
                /\ IsNaN(Df[i].profit_growth)
                /\ IsNaN(Df[i].opportunity_score)
                /\ Cardinality({p \in Rows(route_summary) :
                                    route_summary[p].route = Df[i].route}) = 1
                /\ \A p \in Rows(route_summary) :
                        route_summary[p].route = Df[i].route =>
                            /\ IsNaN(route_summary[p].avg_revenue_growth)
                            /\ IsNaN(route_summary[p].avg_profit_growth)
                            /\ IsNaN(route_summary[p].opportunity_score)

\* A route with one record, undefined score, beside a route with two records
\* and a score.
C19_Witness ==
    /\ pc = "merged"
    /\ Len(Df) = 3
    /\ Len(route_summary) = 2
    /\ \E p, q \in Rows(route_summary) :
        /\ IsNaN(route_summary[p].opportunity_score)
        /\ IsFinite(route_summary[q].opportunity_score)
        /\ Cardinality({i \in Rows(Df) : Df[i].route = route_summary[p].route}) = 1
        /\ \A i \in Rows(Df) :
            Df[i].route = route_summary[p].route => IsNaN(Df[i].opportunity_score)

====
